---- MODULE Spec2Model ----
(***************************************************************************)
(* Model of labrador's message-envelope cryptography (src/util/prp.rs):    *)
(* the PrpCrypto key holder, its AES-128-CBC message and data paths, the   *)
(* AES-256-GCM path and the RSA-SHA256 sign/verify entry points.           *)
(*                                                                         *)
(* Bytes are naturals 0..255; texts (&str, String) are their UTF-8 byte    *)
(* sequences.  The openssl primitives (AES, GHASH, RSA, SHA) are replaced  *)
(* by small keyed functions with the same algebra: an invertible keyed     *)
(* block permutation under real CBC chaining and PKCS#7 padding, a         *)
(* counter-mode stream with a detached tag, a deterministic keyed          *)
(* signature.  The code of prp.rs around them is modelled as written.      *)
(***************************************************************************)
EXTENDS Naturals, Sequences, FiniteSets

VARIABLES key, endian, cfgTest, wtr, sent, call, pending, locals, reply

vars == <<key, endian, cfgTest, wtr, sent, call, pending, locals, reply>>

(***************************************************************************)
(* Bytes and sequences                                                     *)
(***************************************************************************)
\* u8 bitwise exclusive or
Xor8(a, b) ==
    LET bit(i) == (((a \div (2^i)) % 2) + ((b \div (2^i)) % 2)) % 2
    IN  bit(0) + 2*bit(1) + 4*bit(2) + 8*bit(3)
        + 16*bit(4) + 32*bit(5) + 64*bit(6) + 128*bit(7)

XorSeq(x, y) == [i \in 1..Len(x) |-> Xor8(x[i], y[i])]

Take(s, n) == SubSeq(s, 1, n)

Drop(s, n) == SubSeq(s, n + 1, Len(s))

Rep(n, b) == [i \in 1..n |-> b]

\* s with the byte at position i replaced by b
SetByte(s, i, b) == [s EXCEPT ![i] = b]

\* sum of m * i * (s[i] + 1) over the sequence, modulo 256: the mixing function of
\* the stand-in tag and digest
RECURSIVE MixSum(_, _)
MixSum(s, m) ==
    IF s = <<>> THEN 0
    ELSE (m * Len(s) * (s[Len(s)] + 1) + MixSum(Take(s, Len(s) - 1), m)) % 256

(***************************************************************************)
(* Results: Ok(value), Err(error) or a panic that unwinds out of the call  *)
(***************************************************************************)
Ok(v) == [kind |-> "Ok", err |-> "", val |-> v]

Err(e) == [kind |-> "Err", err |-> e, val |-> <<>>]

Abort == [kind |-> "Abort", err |-> "panic", val |-> <<>>]

IsOk(r) == r.kind = "Ok"

(***************************************************************************)
(* rustc_serialize::hex                                                    *)
(***************************************************************************)
HexChars == <<48, 49, 50, 51, 52, 53, 54, 55, 56, 57, 97, 98, 99, 100, 101, 102>>

\* ToHex::to_hex: two lowercase digits per byte, high nibble first
ToHex(bytes) ==
    [i \in 1..(2 * Len(bytes)) |->
        LET b == bytes[(i + 1) \div 2]
        IN  IF i % 2 = 1 THEN HexChars[(b \div 16) + 1] ELSE HexChars[(b % 16) + 1]]

\* value of one hex digit, 16 for white space that is skipped, 17 for anything else
HexVal(c) ==
    IF c \in 48..57 THEN c - 48
    ELSE IF c \in 97..102 THEN c - 97 + 10
    ELSE IF c \in 65..70 THEN c - 65 + 10
    ELSE IF c \in {32, 13, 10, 9} THEN 16
    ELSE 17

IsHexDigit(c) == HexVal(c) < 16

NotSpace(c) == HexVal(c) # 16

\* FromHex::from_hex: white space is skipped; any other character that is no hex
\* digit, or an odd number of digits, is an error
FromHex(s) ==
    LET d == SelectSeq(s, NotSpace)
    IN  IF \E i \in 1..Len(d) : ~IsHexDigit(d[i]) THEN Err("FromHexError")
        ELSE IF Len(d) % 2 # 0 THEN Err("FromHexError")
        ELSE Ok([i \in 1..(Len(d) \div 2) |-> 16 * HexVal(d[2 * i - 1]) + HexVal(d[2 * i])])

(***************************************************************************)
(* base64 (standard alphabet, padded)                                      *)
(***************************************************************************)
B64Chars ==
    <<65, 66, 67, 68, 69, 70, 71, 72, 73, 74, 75, 76, 77, 78, 79, 80,
      81, 82, 83, 84, 85, 86, 87, 88, 89, 90, 97, 98, 99, 100, 101, 102,
      103, 104, 105, 106, 107, 108, 109, 110, 111, 112, 113, 114, 115, 116,
      117, 118, 119, 120, 121, 122, 48, 49, 50, 51, 52, 53, 54, 55, 56, 57,
      43, 47>>

B64Pad == <<61>>

B64Group(b1, b2, b3) ==
    <<B64Chars[(b1 \div 4) + 1],
      B64Chars[((b1 % 4) * 16 + (b2 \div 16)) + 1],
      B64Chars[((b2 % 16) * 4 + (b3 \div 64)) + 1],
      B64Chars[(b3 % 64) + 1]>>

\* base64::encode: four characters per three bytes, the last group padded with '='
Base64Encode(bytes) ==
    LET n == Len(bytes)
        at(i) == IF i <= n THEN bytes[i] ELSE 0
    IN  [i \in 1..(4 * ((n + 2) \div 3)) |->
            LET q == (i - 1) \div 4
                j == ((i - 1) % 4) + 1
            IN  IF 3 * q + j - 1 > n THEN B64Pad[1]
                ELSE B64Group(at(3 * q + 1), at(3 * q + 2), at(3 * q + 3))[j]]

\* sextet of a base64 character, 64 when it is not in the alphabet
B64Val(c) ==
    IF c \in 65..90 THEN c - 65
    ELSE IF c \in 97..122 THEN c - 97 + 26
    ELSE IF c \in 48..57 THEN c - 48 + 52
    ELSE IF c = 43 THEN 62
    ELSE IF c = 47 THEN 63
    ELSE 64

\* base64::decode: whole groups of four, '=' only as the last one or two
\* characters, no stray bits in the last symbol
Base64Decode(s) ==
    LET n == Len(s)
        pad == IF n = 0 \/ n % 4 # 0 THEN 0
               ELSE IF s[n] # 61 THEN 0
               ELSE IF s[n - 1] # 61 THEN 1
               ELSE 2
        v(i) == B64Val(s[i])
    IN  IF n % 4 # 0 THEN Err("DecodeError")
        ELSE IF \E i \in 1..(n - pad) : v(i) = 64 THEN Err("DecodeError")
        ELSE IF pad = 2 /\ v(n - 2) % 16 # 0 THEN Err("DecodeError")
        ELSE IF pad = 1 /\ v(n - 1) % 4 # 0 THEN Err("DecodeError")
        ELSE Ok([i \in 1..(3 * (n \div 4) - pad) |->
                    LET q == 4 * ((i - 1) \div 3)
                        j == (i - 1) % 3
                    IN  IF j = 0 THEN v(q + 1) * 4 + (v(q + 2) \div 16)
                        ELSE IF j = 1 THEN (v(q + 2) % 16) * 16 + (v(q + 3) \div 4)
                        ELSE (v(q + 3) % 4) * 64 + v(q + 4)])

(***************************************************************************)
(* String::from_utf8: well-formed UTF-8 only                               *)
(***************************************************************************)
IsCont(s, i) == i <= Len(s) /\ s[i] \in 128..191

RECURSIVE ValidUtf8From(_, _)
ValidUtf8From(s, i) ==
    IF i > Len(s) THEN TRUE
    ELSE LET b == s[i]
         IN  IF b <= 127 THEN ValidUtf8From(s, i + 1)
             ELSE IF b \in 194..223
                  THEN IsCont(s, i + 1) /\ ValidUtf8From(s, i + 2)
             ELSE IF b \in 224..239
                  THEN /\ IsCont(s, i + 1) /\ IsCont(s, i + 2)
                       /\ (b = 224 => s[i + 1] >= 160)
                       /\ (b = 237 => s[i + 1] <= 159)
                       /\ ValidUtf8From(s, i + 3)
             ELSE IF b \in 240..244
                  THEN /\ IsCont(s, i + 1) /\ IsCont(s, i + 2) /\ IsCont(s, i + 3)
                       /\ (b = 240 => s[i + 1] >= 144)
                       /\ (b = 244 => s[i + 1] <= 143)
                       /\ ValidUtf8From(s, i + 4)
             ELSE FALSE

IsUtf8(s) == ValidUtf8From(s, 1)

\* String::from_utf8(bytes).unwrap_or_default()
FromUtf8OrDefault(bytes) == IF IsUtf8(bytes) THEN bytes ELSE <<>>

(***************************************************************************)
(* Byte order: u32::to_be / u32::from_be and byteorder's NativeEndian      *)
(***************************************************************************)
\* A u32 is held as its four base-256 digits, most significant first (TLC's
\* integers stop at 2^31 - 1).
\* usize as u32, for the lengths the model reaches (below 2^31)
AsU32(n) == <<(n \div 16777216) % 256, (n \div 65536) % 256, (n \div 256) % 256, n % 256>>

\* u32 as usize, where it fits TLC's integers
AsUsize(d) == d[1] * 16777216 + d[2] * 65536 + d[3] * 256 + d[4]

\* larger than any length the model reaches
Huge(d) == d[1] >= 128

SwapBytes(d) == <<d[4], d[3], d[2], d[1]>>

\* u32::to_be: a byte swap on a little-endian target, the identity on a big-endian one
ToBe(d, e) == IF e = "little" THEN SwapBytes(d) ELSE d

\* u32::from_be
FromBe(d, e) == IF e = "little" THEN SwapBytes(d) ELSE d

\* WriteBytesExt::write_u32::<NativeEndian>: the bytes of the value in memory order
WriteU32Native(d, e) == IF e = "little" THEN <<d[4], d[3], d[2], d[1]>> ELSE d

\* ReadBytesExt::read_u32::<NativeEndian>
ReadU32Native(b, e) == IF e = "little" THEN <<b[4], b[3], b[2], b[1]>> ELSE b

\* mutant of LenField: the to_be() of line 51 left out
LenFieldMissingToBe(n, e) == WriteU32Native(AsU32(n), e)

\* the length field written by line 51
LenField(n, e) == WriteU32Native(ToBe(AsU32(n), e), e)

\* mutant of ReadLenField: the from_be() of line 64 left out
ReadLenFieldNoFromBe(b, e) == ReadU32Native(b, e)

\* the length field read back by lines 63-64
ReadLenField(b, e) == FromBe(ReadU32Native(b, e), e)

(***************************************************************************)
(* openssl::symm with Cipher::aes_128_cbc(): CBC chaining and PKCS#7       *)
(* padding as in the library, over a stand-in keyed block permutation.     *)
(***************************************************************************)
BlockLen == 16

RECURSIVE SumSeq(_)
SumSeq(s) == IF s = <<>> THEN 0 ELSE (s[1] + SumSeq(Drop(s, 1))) % 256

\* The block permutation under key k.  With u = x + k bytewise and T the sum of u,
\* y[i] = 5 * (u[i] + T) + i (mod 256): every output byte depends on every input
\* byte, and (below) every byte of the inverse on every byte of its input.
BlockEnc(k, x) ==
    LET u == [i \in 1..BlockLen |-> (x[i] + k[i]) % 256]
        T == SumSeq(u)
    IN  [i \in 1..BlockLen |-> (5 * (u[i] + T) + i) % 256]

\* its inverse: 205 = 1/5 and 241 = 1/17 modulo 256
BlockDec(k, y) ==
    LET w == [i \in 1..BlockLen |-> (205 * (y[i] + 256 - i)) % 256]
        T == (241 * SumSeq(w)) % 256
    IN  [i \in 1..BlockLen |-> (w[i] + 512 - T - k[i]) % 256]

Pkcs7Pad(data) ==
    LET n == BlockLen - (Len(data) % BlockLen) IN data \o Rep(n, n)

RECURSIVE CbcEncLoop(_, _, _, _)
CbcEncLoop(k, prev, rest, out) ==
    IF rest = <<>> THEN out
    ELSE LET c == BlockEnc(k, XorSeq(Take(rest, BlockLen), prev))
         IN  CbcEncLoop(k, c, Drop(rest, BlockLen), out \o c)

RECURSIVE CbcDecLoop(_, _, _, _)
CbcDecLoop(k, prev, rest, out) ==
    IF rest = <<>> THEN out
    ELSE LET c == Take(rest, BlockLen)
         IN  CbcDecLoop(k, c, Drop(rest, BlockLen), out \o XorSeq(BlockDec(k, c), prev))

\* symm::encrypt(Cipher::aes_128_cbc(), key, Some(iv), data)
SymmEncrypt(k, iv, data) ==
    IF Len(k) # BlockLen \/ Len(iv) # BlockLen THEN Err("ErrorStack")
    ELSE Ok(CbcEncLoop(k, iv, Pkcs7Pad(data), <<>>))

\* symm::decrypt(Cipher::aes_128_cbc(), key, Some(iv), data)
SymmDecrypt(k, iv, data) ==
    IF Len(k) # BlockLen \/ Len(iv) # BlockLen THEN Err("ErrorStack")
    ELSE IF Len(data) = 0 \/ Len(data) % BlockLen # 0 THEN Err("ErrorStack")
    ELSE LET p == CbcDecLoop(k, iv, data, <<>>)
             n == p[Len(p)]
         IN  IF n \in 1..BlockLen /\ Drop(p, Len(p) - n) = Rep(n, n)
             THEN Ok(Take(p, Len(p) - n))
             ELSE Err("ErrorStack")

(***************************************************************************)
(* PrpCrypto: the message path                                             *)
(***************************************************************************)
PrefixLen == 16

HeaderLen == 20

\* get_random_string() under cfg!(test)
TestPrefix == <<49, 50, 51, 52, 53, 54, 55, 56, 57, 48, 49, 50, 51, 52, 53, 54>>

Alphanumeric == (48..57) \cup (65..90) \cup (97..122)

\* the draws of thread_rng().sample_iter(&Alphanumeric).take(16) the model follows
RandomPrefixes ==
    {<<97, 66, 51, 100, 69, 54, 103, 72, 57, 106, 75, 50, 109, 78, 53, 112>>,
     <<90, 122, 48, 57, 65, 97, 90, 122, 48, 57, 65, 97, 90, 122, 48, 57>>}

get_random_string(test) == IF test THEN {TestPrefix} ELSE RandomPrefixes

\* lines 50-53: the frame handed to the cipher
Frame(prefix, plaintext, id, e) ==
    prefix \o LenField(Len(plaintext), e) \o plaintext \o id

aes_128_cbc_encrypt_msg(k, e, prefix, plaintext, id) ==
    LET w == Frame(prefix, plaintext, id, e)
    IN  IF Len(k) < BlockLen THEN Abort                 \* &self.key[..16]
        ELSE LET encrypted == SymmEncrypt(k, Take(k, BlockLen), w)
             IN  IF ~IsOk(encrypted) THEN Err(encrypted.err)
                 ELSE Ok(Base64Encode(encrypted.val))

\* mutant of DecodeFrame: the identity check of line 67 as a prefix test
DecodeFramePrefixId(text, e, id) ==
    IF Len(text) < HeaderLen THEN Abort
    ELSE LET field == ReadLenField(SubSeq(text, PrefixLen + 1, HeaderLen), e)
             content_length == AsUsize(field)
         IN  IF Huge(field) \/ content_length + HeaderLen > Len(text) THEN Abort
             ELSE LET content == SubSeq(text, HeaderLen + 1, content_length + HeaderLen)
                      from_id == Drop(text, content_length + HeaderLen)
                  IN  IF Len(from_id) < Len(id) \/ Take(from_id, Len(id)) # id
                      THEN Err("InvalidAppId")
                      ELSE Ok(FromUtf8OrDefault(content))

\* lines 63-71, on the decrypted bytes
DecodeFrame(text, e, id) ==
    IF Len(text) < HeaderLen THEN Abort                 \* text[16..20]
    ELSE LET field == ReadLenField(SubSeq(text, PrefixLen + 1, HeaderLen), e)
             content_length == AsUsize(field)
         IN  IF Huge(field) \/ content_length + HeaderLen > Len(text)
             THEN Abort                                 \* text[20 .. content_length + 20]
             ELSE LET content == SubSeq(text, HeaderLen + 1, content_length + HeaderLen)
                      from_id == Drop(text, content_length + HeaderLen)
                  IN  IF from_id # id THEN Err("InvalidAppId")
                      ELSE Ok(FromUtf8OrDefault(content))

aes_128_cbc_decrypt_msg(k, e, ciphertext, id) ==
    LET b64decoded == Base64Decode(ciphertext)
    IN  IF ~IsOk(b64decoded) THEN Err(b64decoded.err)
        ELSE IF Len(k) < BlockLen THEN Abort            \* &self.key[..16]
        ELSE LET text == SymmDecrypt(k, Take(k, BlockLen), b64decoded.val)
             IN  IF ~IsOk(text) THEN Err(text.err)
                 ELSE DecodeFrame(text.val, e, id)

(***************************************************************************)
(* PrpCrypto: the data path                                                *)
(***************************************************************************)
\* mutant of aes_128_cbc_encrypt_data: the message path's key-derived iv
aes_128_cbc_encrypt_data_key_iv(k, plaintext, iv) ==
    IF Len(k) < BlockLen THEN Abort
    ELSE LET text == SymmEncrypt(k, Take(k, BlockLen), plaintext)
         IN  IF ~IsOk(text) THEN Err(text.err) ELSE Ok(ToHex(text.val))

aes_128_cbc_encrypt_data(k, plaintext, iv) ==
    LET text == SymmEncrypt(k, iv, plaintext)
    IN  IF ~IsOk(text) THEN Err(text.err) ELSE Ok(ToHex(text.val))

aes_128_cbc_decrypt_data(k, ciphertext, iv) ==
    LET data == FromHex(ciphertext)
    IN  IF ~IsOk(data) THEN Err(data.err)
        ELSE LET text == SymmDecrypt(k, iv, data.val)
             IN  IF ~IsOk(text) THEN Err(text.err)
                 ELSE Ok(FromUtf8OrDefault(text.val))

(***************************************************************************)
(* openssl::symm with Cipher::aes_256_gcm(): a counter-mode stream and a   *)
(* detached tag over (key, nonce, associated data, ciphertext).            *)
(***************************************************************************)
GcmKeyLen == 32

TagLen == 16

Keystream(k, nonce, i) == (k[((i - 1) % GcmKeyLen) + 1] + MixSum(nonce, 7) + 13 * i) % 256

GcmCrypt(k, nonce, data) == [i \in 1..Len(data) |-> Xor8(data[i], Keystream(k, nonce, i))]

GcmTag(k, nonce, ad, c) ==
    [j \in 1..TagLen |->
        (MixSum(k, j) + MixSum(nonce, j + 16) + MixSum(ad, j + 32) + MixSum(c, j + 48)
            + j * Len(ad) + 3 * Len(c) + 11 * Len(nonce)) % 256]

\* symm::encrypt_aead: returns the ciphertext, writes the tag into the caller's buffer
EncryptAead(k, nonce, ad, data) ==
    IF Len(k) # GcmKeyLen \/ Len(nonce) = 0 THEN Err("ErrorStack")
    ELSE LET c == GcmCrypt(k, nonce, data)
         IN  Ok([ct |-> c, tag |-> GcmTag(k, nonce, ad, c)])

\* symm::decrypt_aead: the plaintext only when the tag verifies
DecryptAead(k, nonce, ad, c, tag) ==
    IF Len(k) # GcmKeyLen \/ Len(nonce) = 0 THEN Err("ErrorStack")
    ELSE IF Len(tag) \notin 1..TagLen THEN Err("ErrorStack")
    ELSE IF tag # Take(GcmTag(k, nonce, ad, c), Len(tag)) THEN Err("ErrorStack")
    ELSE Ok(GcmCrypt(k, nonce, c))

(***************************************************************************)
(* PrpCrypto: the AES-256-GCM path                                         *)
(***************************************************************************)
aes_256_gcm_encrypt(k, associated_data, nonce, plain_text) ==
    LET encrypted == EncryptAead(k, nonce, associated_data, plain_text)
    IN  IF ~IsOk(encrypted) THEN Err(encrypted.err)
        ELSE Ok(encrypted.val.ct)                       \* out_tag is dropped

aes_256_gcm_decrypt(k, associated_data, nonce, ciphertext, tag) ==
    DecryptAead(k, nonce, associated_data, ciphertext, tag)

(***************************************************************************)
(* openssl RSA: key material is a record of its container (pem, der), its  *)
(* encoding (pkcs1, pkcs8, spki), its part (private, public) and the key   *)
(* pair it belongs to; a signature is the private-key map of the encoded   *)
(* message (padding, digest algorithm, digest).                            *)
(***************************************************************************)
Digest(alg, content) ==
    LET m == IF alg = "sha256" THEN 5 ELSE 9
    IN  <<MixSum(content, m), MixSum(content, m + 2), Len(content) % 256, MixSum(content, 1)>>

EncodedMessage(padding, alg, content) ==
    <<IF padding = "PKCS1" THEN 1 ELSE 188, IF alg = "sha256" THEN 32 ELSE 20>>
        \o Digest(alg, content)

RsaPrivate(kp, em) == [i \in 1..Len(em) |-> (em[i] + 37 * kp + i) % 256]

RsaPublic(kp, sig) == [i \in 1..Len(sig) |-> (sig[i] + 1024 - 37 * kp - i) % 256]

\* Signer::sign_to_vec
SignToVec(kp, padding, alg, content) == RsaPrivate(kp, EncodedMessage(padding, alg, content))

\* Verifier::verify: a signature that does not match is false, not an error
VerifierVerify(kp, padding, alg, content, sig) ==
    /\ Len(sig) = Len(EncodedMessage(padding, alg, content))
    /\ RsaPublic(kp, sig) = EncodedMessage(padding, alg, content)

\* Rsa::private_key_from_pem: the PKCS#1 and the PKCS#8 PEM block
PrivateKeyFromPem(m) == m.form = "pem" /\ m.part = "private"

\* Rsa::private_key_from_der: PKCS#1 DER
PrivateKeyFromDer(m) == m.form = "der" /\ m.part = "private" /\ m.enc = "pkcs1"

\* PKey::private_key_from_pkcs8: PKCS#8 DER
PrivateKeyFromPkcs8(m) == m.form = "der" /\ m.part = "private" /\ m.enc = "pkcs8"

\* Rsa::public_key_from_pem: the SubjectPublicKeyInfo PEM block
PublicKeyFromPem(m) == m.form = "pem" /\ m.part = "public" /\ m.enc = "spki"

(***************************************************************************)
(* PrpCrypto: RSA-SHA256 sign and verify                                   *)
(***************************************************************************)
rsa_sha256_sign(content, private_key) ==
    IF ~PrivateKeyFromPem(private_key) THEN Err("ErrorStack")
    ELSE Ok(Base64Encode(SignToVec(private_key.kp, "PKCS1", "sha256", content)))

rsa_sha256_sign_pkcs1(content, private_key) ==
    IF ~PrivateKeyFromDer(private_key) THEN Err("ErrorStack")
    ELSE Ok(Base64Encode(SignToVec(private_key.kp, "PKCS1", "sha256", content)))

\* mutant of rsa_sha256_sign_pkcs8: MessageDigest::sha1()
rsa_sha256_sign_pkcs8_sha1(content, private_key) ==
    IF ~PrivateKeyFromPkcs8(private_key) THEN Err("ErrorStack")
    ELSE Ok(Base64Encode(SignToVec(private_key.kp, "PKCS1", "sha1", content)))

rsa_sha256_sign_pkcs8(content, private_key) ==
    IF ~PrivateKeyFromPkcs8(private_key) THEN Err("ErrorStack")
    ELSE Ok(Base64Encode(SignToVec(private_key.kp, "PKCS1", "sha256", content)))

rsa_sha256_verify(public_key, content, sign) ==
    LET decoded == Base64Decode(sign)
    IN  IF ~IsOk(decoded) THEN Err(decoded.err)
        ELSE LET sig == FromHex(ToHex(decoded.val))
             IN  IF ~IsOk(sig) THEN Err(sig.err)
                 ELSE IF ~PublicKeyFromPem(public_key) THEN Err("ErrorStack")
                 ELSE Ok(VerifierVerify(public_key.kp, "PKCS1", "sha256", content, sig.val))

(***************************************************************************)
(* Inputs the model draws                                                  *)
(***************************************************************************)
K16A == <<48, 49, 50, 51, 52, 53, 54, 55, 56, 57, 97, 98, 99, 100, 101, 102>>

K16B == <<102, 101, 100, 99, 98, 97, 57, 56, 55, 54, 53, 52, 51, 50, 49, 200>>

KShort == <<115, 104, 111, 114, 116>>

\* 16-byte keys for the CBC paths, a 32-byte key for GCM, a key shorter than 16
Keys == {K16A, K16B, K16A \o K16B, KShort}

TxtA == <<97>>

TxtEAcute == <<195, 169>>

TxtHello == <<104, 101, 108, 108, 111, 32, 119, 111, 114, 108, 100>>

TxtBlock == <<104, 101, 108, 108, 111, 32, 119, 111, 114, 108, 100, 44, 32, 111, 107, 33>>

\* texts: empty, one byte, a two-byte code point, 11 bytes, a whole block
Contents == {<<>>, TxtA, TxtEAcute, TxtHello, TxtBlock}

IdApp42 == <<97, 112, 112, 45, 52, 50>>

\* recipient ids: empty, two of equal length, a proper prefix and a proper suffix
Ids == {<<>>, IdApp42, <<97, 112, 112, 45, 52, 51>>, <<97, 112, 112, 45, 52>>, <<52, 50>>}

IvA == <<83, 82, 69, 84, 118, 98, 81, 89, 88, 48, 55, 78, 112, 77, 68, 75>>

IvB == <<100, 115, 100, 50, 98, 98, 57, 101, 101, 53, 101, 52, 52, 100, 97, 49>>

NonceA == <<98, 98, 57, 101, 101, 53, 101, 52, 52, 100, 97, 49>>

\* ivs of the data path: two of 16 bytes and one of 12
IVs == {IvA, IvB, NonceA}

Nonces == {NonceA, <<110, 48, 110, 99, 101>>, <<>>}

AssociatedData == {<<>>, <<99, 101, 114, 116, 105, 102, 105, 99, 97, 116, 101>>}

\* plaintexts of the GCM path: shorter than a tag, as long as one, longer, not UTF-8
GcmPlaintexts == {<<>>, TxtHello, TxtBlock, TxtBlock \o TxtA, <<255, 0, 254>>}

\* the single-bit masks a tampered byte is changed by: 2^0 .. 2^MaxFlipBit
MaxFlipBit == 0

FlipMasks == {2^b : b \in 0..MaxFlipBit}

\* every text that differs from ct's bytes in one byte by one bit of FlipMasks
Tampered(raw) ==
    {SetByte(raw, i, Xor8(raw[i], m)) : i \in 1..Len(raw), m \in FlipMasks}

\* A peer holding the same key may frame anything.  Frames this code never builds:
\* shorter than the header, a length field past the end, one of 2^31 and more,
\* content that is not UTF-8.
PeerFrames ==
    {<<1, 2, 3, 4, 5>>,
     TestPrefix \o <<0, 0, 0>>,
     TestPrefix \o <<0, 0, 0, 200>> \o TxtA \o IdApp42,
     TestPrefix \o <<255, 255, 255, 240>> \o TxtA \o IdApp42,
     TestPrefix \o <<0, 0, 0, 2>> \o <<255, 254>> \o IdApp42,
     TestPrefix \o <<0, 0, 0, 1>> \o <<195>> \o IdApp42,
     TestPrefix \o <<0, 0, 0, 1>> \o TxtA \o IdApp42}

PeerKey == IF Len(key) = BlockLen THEN key ELSE K16A

\* message ciphertexts that do not come from this key holder's encrypt call
PeerMessages ==
    {Base64Encode(SymmEncrypt(PeerKey, PeerKey, f).val) : f \in PeerFrames}
        \cup {<<52, 33, 61, 61>>, Base64Encode(<<1, 2, 3>>), <<>>}

\* data ciphertexts that do not come from this key holder's encrypt call
PeerData ==
    {ToHex(SymmEncrypt(PeerKey, IvA, p).val) : p \in {<<255, 254>>, <<195>>, TxtA}}
        \cup {<<122, 122>>, <<48>>, ToHex(<<1, 2, 3>>),
              <<32>> \o ToHex(SymmEncrypt(PeerKey, IvA, TxtHello).val)}

KeyMaterial ==
    [form : {"pem", "der"}, enc : {"pkcs1", "pkcs8", "spki"},
     part : {"private", "public"}, kp : {1, 2}]

\* private keys as their owner exports them, and one public key passed by mistake
PrivateKeys ==
    {m \in KeyMaterial : m.part = "private" /\ m.enc \in {"pkcs1", "pkcs8"}}
        \cup {[form |-> "pem", enc |-> "spki", part |-> "public", kp |-> 1]}

PublicKeys ==
    {m \in KeyMaterial : m.part = "public" /\ m.form = "pem" /\ m.enc \in {"spki", "pkcs1"}}

SignContents == {TxtA, TxtHello}

(***************************************************************************)
(* State: the key holder, the build (target byte order, cfg!(test)), and   *)
(* the caller's view: the last producing call (sent) and the last call.    *)
(* wtr is the frame buffer of the last aes_128_cbc_encrypt_msg.            *)
(* pending and locals are the calls in flight of callers that share the    *)
(* key holder and the local bindings of those calls; reply is an           *)
(* ArticlesReply (wechat/mp/replies/articles.rs).                          *)
(***************************************************************************)
NoCall == [op |-> "none"]

\* the callers that share one key holder (&PrpCrypto)
Callers == {"a", "b"}

NotCalling == [pc |-> "idle"]

NoReply == [made |-> FALSE]

Record(o, a, r) == [op |-> o, args |-> a, ret |-> r]

\* PrpCrypto::new(key), on either byte order, in a test or a release build
Init ==
    /\ key \in Keys
    /\ endian \in {"little", "big"}
    /\ cfgTest \in BOOLEAN
    /\ wtr = <<>>
    /\ sent = NoCall
    /\ call = NoCall
    /\ pending = [c \in Callers |-> NotCalling]
    /\ locals = [c \in Callers |-> <<>>]
    /\ reply = NoReply

Idle == call.op = "none"

Fresh(o) == call = sent /\ sent.op = o /\ IsOk(sent.ret)

Produce(c) ==
    sent' = c /\ call' = c /\ UNCHANGED <<key, endian, cfgTest, pending, locals, reply>>

Consume(c) ==
    call' = c /\ UNCHANGED <<key, endian, cfgTest, wtr, sent, pending, locals, reply>>

EncryptMsg ==
    /\ Idle
    /\ \E plaintext \in Contents, id \in Ids, prefix \in get_random_string(cfgTest) :
          /\ wtr' = Frame(prefix, plaintext, id, endian)
          /\ Produce(Record("encrypt_msg",
                            [plaintext |-> plaintext, id |-> id, prefix |-> prefix],
                            aes_128_cbc_encrypt_msg(key, endian, prefix, plaintext, id)))

\* the (ciphertext, id) pairs the model hands to aes_128_cbc_decrypt_msg
MsgInputs ==
    IF Fresh("encrypt_msg")
    THEN ({sent.ret.val} \X Ids)
         \cup ({Base64Encode(x) : x \in Tampered(Base64Decode(sent.ret.val).val)}
                  \X {sent.args.id})
    ELSE IF Idle THEN PeerMessages \X {IdApp42}
    ELSE {}

DecryptMsg ==
    \E in \in MsgInputs :
        Consume(Record("decrypt_msg", [ciphertext |-> in[1], id |-> in[2]],
                       aes_128_cbc_decrypt_msg(key, endian, in[1], in[2])))

EncryptData ==
    /\ Idle
    /\ \E plaintext \in Contents, iv \in IVs :
          /\ wtr' = wtr
          /\ Produce(Record("encrypt_data", [plaintext |-> plaintext, iv |-> iv],
                            aes_128_cbc_encrypt_data(key, plaintext, iv)))

DataInputs ==
    IF Fresh("encrypt_data") THEN {sent.ret.val} \X IVs
    ELSE IF Idle THEN PeerData \X {IvA}
    ELSE {}

DecryptData ==
    \E in \in DataInputs :
        Consume(Record("decrypt_data", [ciphertext |-> in[1], iv |-> in[2]],
                       aes_128_cbc_decrypt_data(key, in[1], in[2])))

GcmEncrypt ==
    /\ Idle
    /\ \E ad \in AssociatedData, nonce \in Nonces, plain_text \in GcmPlaintexts :
          /\ wtr' = wtr
          /\ Produce(Record("gcm_encrypt",
                            [ad |-> ad, nonce |-> nonce, plain_text |-> plain_text],
                            aes_256_gcm_encrypt(key, ad, nonce, plain_text)))

\* the tests' reading of an envelope (lines 250-252): the last 16 bytes are the tag
SplitCt(envelope) ==
    Take(envelope, IF Len(envelope) > TagLen THEN Len(envelope) - TagLen ELSE 0)

SplitTag(envelope) ==
    Drop(envelope, IF Len(envelope) > TagLen THEN Len(envelope) - TagLen ELSE 0)

PeerGcmKey == IF Len(key) = GcmKeyLen THEN key ELSE K16B \o K16A

\* (ad, nonce, ciphertext, tag) of a peer that sealed under the same key, with the
\* tag intact, with one tag byte changed, truncated, and with other associated data
PeerEnvelopes ==
    UNION {LET e == EncryptAead(PeerGcmKey, NonceA, ad, p).val
           IN  {<<ad, NonceA, e.ct, e.tag>>,
                <<ad, NonceA, e.ct, SetByte(e.tag, 3, Xor8(e.tag[3], 1))>>,
                <<ad, NonceA, e.ct, Take(e.tag, 12)>>,
                <<TxtA, NonceA, e.ct, e.tag>>}
           : ad \in AssociatedData, p \in GcmPlaintexts}

\* the (ad, nonce, ciphertext, tag) the model hands to aes_256_gcm_decrypt
GcmInputs ==
    IF Fresh("gcm_encrypt")
    THEN {<<sent.args.ad, sent.args.nonce, SplitCt(sent.ret.val), SplitTag(sent.ret.val)>>}
    ELSE IF Idle THEN PeerEnvelopes
    ELSE {}

GcmDecrypt ==
    \E in \in GcmInputs :
        Consume(Record("gcm_decrypt",
                       [ad |-> in[1], nonce |-> in[2], ciphertext |-> in[3], tag |-> in[4]],
                       aes_256_gcm_decrypt(key, in[1], in[2], in[3], in[4])))

RsaSign ==
    /\ Idle
    /\ \E content \in SignContents, private_key \in PrivateKeys :
          /\ wtr' = wtr
          /\ Produce(Record("sign", [content |-> content, private_key |-> private_key],
                            rsa_sha256_sign(content, private_key)))

RsaSignPkcs1 ==
    /\ Idle
    /\ \E content \in SignContents, private_key \in PrivateKeys :
          /\ wtr' = wtr
          /\ Produce(Record("sign_pkcs1", [content |-> content, private_key |-> private_key],
                            rsa_sha256_sign_pkcs1(content, private_key)))

RsaSignPkcs8 ==
    /\ Idle
    /\ \E content \in SignContents, private_key \in PrivateKeys :
          /\ wtr' = wtr
          /\ Produce(Record("sign_pkcs8", [content |-> content, private_key |-> private_key],
                            rsa_sha256_sign_pkcs8(content, private_key)))

SignOps == {"sign", "sign_pkcs1", "sign_pkcs8"}

\* signatures that are no output of a sign call: not base64, and base64 of other bytes
PeerSignatures == {<<52, 33, 61, 61>>, Base64Encode(<<1, 2, 3>>), <<>>}

\* the (public key, content, signature) the model hands to rsa_sha256_verify
VerifyInputs ==
    IF \E o \in SignOps : Fresh(o) THEN PublicKeys \X SignContents \X {sent.ret.val}
    ELSE IF Idle THEN PublicKeys \X {TxtA} \X PeerSignatures
    ELSE {}

RsaVerify ==
    \E in \in VerifyInputs :
        Consume(Record("verify", [public_key |-> in[1], content |-> in[2], sign |-> in[3]],
                       rsa_sha256_verify(in[1], in[2], in[3])))

\* the caller drops what the calls returned
Forget ==
    /\ ~Idle
    /\ sent' = NoCall
    /\ call' = NoCall
    /\ wtr' = <<>>
    /\ UNCHANGED <<key, endian, cfgTest, pending, locals, reply>>

Next ==
    \/ EncryptMsg
    \/ DecryptMsg
    \/ EncryptData
    \/ DecryptData
    \/ GcmEncrypt
    \/ GcmDecrypt
    \/ RsaSign
    \/ RsaSignPkcs1
    \/ RsaSignPkcs8
    \/ RsaVerify
    \/ Forget

Spec == Init /\ [][Next]_vars

(***************************************************************************)
(* The frame codec alone (lines 50-53), on contents up to BigLen bytes     *)
(***************************************************************************)
BigLen == 65537

FrameContents == Contents \cup {Rep(BigLen, 97)}

Encode ==
    /\ Idle
    /\ \E plaintext \in FrameContents, id \in Ids, prefix \in get_random_string(cfgTest) :
          /\ wtr' = Frame(prefix, plaintext, id, endian)
          /\ call' = Record("encode",
                            [plaintext |-> plaintext, id |-> id, prefix |-> prefix],
                            Ok(<<>>))
          /\ UNCHANGED <<key, endian, cfgTest, sent, pending, locals, reply>>

InitFrame == Init /\ key = K16A

NextFrame ==
    \/ Encode
    \/ Forget

SpecFrame == InitFrame /\ [][NextFrame]_vars

(***************************************************************************)
(* Several callers sharing one key holder.  Every engine operation takes   *)
(* &self; a call in flight is its caller's position in the function body   *)
(* and the local binding the next statement reads.  The statements of      *)
(* different calls interleave freely.                                      *)
(***************************************************************************)
\* mutant of Local: one buffer kept for all calls
LocalShared(c) == "a"

\* the place of a call's local bindings (let wtr, let b64decoded, let text,
\* let data): each call has its own
Local(c) == c

\* an envelope a peer sealed under the same key
PeerSeal == EncryptAead(PeerGcmKey, NonceA, <<>>, TxtHello).val

\* the calls the callers make: both directions of each path, with inputs that
\* succeed and inputs that fail
SharedCalls ==
    {[op |-> "encrypt_msg", args |-> [plaintext |-> p, id |-> IdApp42, prefix |-> x]]
        : p \in {TxtA, TxtHello}, x \in get_random_string(cfgTest)}
    \cup {[op |-> "decrypt_msg", args |-> [ciphertext |-> ct, id |-> i]]
        : ct \in {aes_128_cbc_encrypt_msg(PeerKey, endian, TestPrefix, TxtHello, IdApp42).val,
                  <<52, 33, 61, 61>>},
          i \in {IdApp42, <<52, 50>>}}
    \cup {[op |-> "encrypt_data", args |-> [plaintext |-> TxtHello, iv |-> iv]]
        : iv \in {IvA, NonceA}}
    \cup {[op |-> "decrypt_data", args |-> [ciphertext |-> ct, iv |-> IvA]]
        : ct \in {ToHex(SymmEncrypt(PeerKey, IvA, TxtA).val), <<48>>}}
    \cup {[op |-> "gcm_encrypt",
           args |-> [ad |-> <<>>, nonce |-> NonceA, plain_text |-> TxtHello]]}
    \cup {[op |-> "gcm_decrypt",
           args |-> [ad |-> e[1], nonce |-> e[2], ciphertext |-> e[3], tag |-> e[4]]]
        : e \in {<<<<>>, NonceA, PeerSeal.ct, t>>
                    : t \in {PeerSeal.tag, Take(PeerSeal.tag, 12) \o <<0, 0, 0, 0>>}}}

At(c, o, pc) == pending[c].pc = pc /\ pending[c].op = o

\* caller c's call moves on to position pc with local binding v
Goto(c, pc, v) ==
    /\ pending' = [pending EXCEPT ![c].pc = pc]
    /\ locals' = [locals EXCEPT ![Local(c)] = v]
    /\ UNCHANGED <<key, endian, cfgTest, wtr, sent, call, reply>>

\* caller c's call returns r (or unwinds); its local bindings are dropped
Finish(c, r) ==
    /\ pending' = [pending EXCEPT ![c].pc = "done", ![c].ret = r]
    /\ locals' = [locals EXCEPT ![Local(c)] = <<>>]
    /\ UNCHANGED <<key, endian, cfgTest, wtr, sent, call, reply>>

\* a caller enters one of the six operations
Enter(c) ==
    /\ pending[c].pc = "idle"
    /\ \E a \in SharedCalls :
          pending' = [pending EXCEPT ![c] =
                         [pc |-> "entered", op |-> a.op, args |-> a.args, ret |-> Abort]]
    /\ UNCHANGED <<key, endian, cfgTest, wtr, sent, call, locals, reply>>

\* line 50
EncryptMsgPrefix(c) ==
    /\ At(c, "encrypt_msg", "entered")
    /\ Goto(c, "line51", pending[c].args.prefix)

\* lines 51-53
EncryptMsgFrame(c) ==
    /\ At(c, "encrypt_msg", "line51")
    /\ Goto(c, "line54",
            locals[Local(c)] \o LenField(Len(pending[c].args.plaintext), endian)
                \o pending[c].args.plaintext \o pending[c].args.id)

\* lines 54-56
EncryptMsgCipher(c) ==
    /\ At(c, "encrypt_msg", "line54")
    /\ IF Len(key) < BlockLen THEN Finish(c, Abort)
       ELSE LET encrypted == SymmEncrypt(key, Take(key, BlockLen), locals[Local(c)])
            IN  IF ~IsOk(encrypted) THEN Finish(c, Err(encrypted.err))
                ELSE Finish(c, Ok(Base64Encode(encrypted.val)))

\* line 61
DecryptMsgDecode(c) ==
    /\ At(c, "decrypt_msg", "entered")
    /\ LET b64decoded == Base64Decode(pending[c].args.ciphertext)
       IN  IF ~IsOk(b64decoded) THEN Finish(c, Err(b64decoded.err))
           ELSE Goto(c, "line62", b64decoded.val)

\* line 62
DecryptMsgCipher(c) ==
    /\ At(c, "decrypt_msg", "line62")
    /\ IF Len(key) < BlockLen THEN Finish(c, Abort)
       ELSE LET text == SymmDecrypt(key, Take(key, BlockLen), locals[Local(c)])
            IN  IF ~IsOk(text) THEN Finish(c, Err(text.err))
                ELSE Goto(c, "line63", text.val)

\* lines 63-71
DecryptMsgParse(c) ==
    /\ At(c, "decrypt_msg", "line63")
    /\ Finish(c, DecodeFrame(locals[Local(c)], endian, pending[c].args.id))

\* lines 86-87
EncryptDataCall(c) ==
    /\ At(c, "encrypt_data", "entered")
    /\ Finish(c, aes_128_cbc_encrypt_data(key, pending[c].args.plaintext, pending[c].args.iv))

\* line 77
DecryptDataDecode(c) ==
    /\ At(c, "decrypt_data", "entered")
    /\ LET data == FromHex(pending[c].args.ciphertext)
       IN  IF ~IsOk(data) THEN Finish(c, Err(data.err))
           ELSE Goto(c, "line78", data.val)

\* lines 78-80
DecryptDataCipher(c) ==
    /\ At(c, "decrypt_data", "line78")
    /\ LET text == SymmDecrypt(key, pending[c].args.iv, locals[Local(c)])
       IN  IF ~IsOk(text) THEN Finish(c, Err(text.err))
           ELSE Finish(c, Ok(FromUtf8OrDefault(text.val)))

\* lines 176-178
GcmEncryptCall(c) ==
    /\ At(c, "gcm_encrypt", "entered")
    /\ Finish(c, aes_256_gcm_encrypt(key, pending[c].args.ad, pending[c].args.nonce,
                                     pending[c].args.plain_text))

\* lines 183-184
GcmDecryptCall(c) ==
    /\ At(c, "gcm_decrypt", "entered")
    /\ Finish(c, aes_256_gcm_decrypt(key, pending[c].args.ad, pending[c].args.nonce,
                                     pending[c].args.ciphertext, pending[c].args.tag))

\* the caller takes the result and is free to call again
Leave(c) ==
    /\ pending[c].pc = "done"
    /\ pending' = [pending EXCEPT ![c] = NotCalling]
    /\ UNCHANGED <<key, endian, cfgTest, wtr, sent, call, locals, reply>>

NextShared ==
    \/ \E c \in Callers : Enter(c)
    \/ \E c \in Callers : EncryptMsgPrefix(c)
    \/ \E c \in Callers : EncryptMsgFrame(c)
    \/ \E c \in Callers : EncryptMsgCipher(c)
    \/ \E c \in Callers : DecryptMsgDecode(c)
    \/ \E c \in Callers : DecryptMsgCipher(c)
    \/ \E c \in Callers : DecryptMsgParse(c)
    \/ \E c \in Callers : EncryptDataCall(c)
    \/ \E c \in Callers : DecryptDataDecode(c)
    \/ \E c \in Callers : DecryptDataCipher(c)
    \/ \E c \in Callers : GcmEncryptCall(c)
    \/ \E c \in Callers : GcmDecryptCall(c)
    \/ \E c \in Callers : Leave(c)

SpecShared == Init /\ [][NextShared]_vars

(***************************************************************************)
(* wechat/mp/replies/articles.rs: Article, ArticlesReply and its rendering *)
(* as XML.  A String is the sequence of its lexemes: words, markup, line   *)
(* breaks, digits; format! and join concatenate.                           *)
(***************************************************************************)
CDataOpen == "<![CDATA["

CDataClose == "]]>"

\* Article::new, Article::with_image, Article::with_description
ArticleNew(title, url) ==
    [title |-> title, description |-> <<>>, url |-> url, image |-> <<>>]

ArticleWithImage(title, url, image) ==
    [title |-> title, description |-> <<>>, url |-> url, image |-> image]

ArticleWithDescription(title, url, description) ==
    [title |-> title, description |-> description, url |-> url, image |-> <<>>]

CData(text) == <<CDataOpen>> \o text \o <<CDataClose>>

\* Article::render
ArticleRender(a) ==
    <<"<item>", "\n", "\n", "<Title>">> \o CData(a.title) \o <<"</Title>", "\n">>
        \o <<"<Description>">> \o CData(a.description) \o <<"</Description>", "\n">>
        \o <<"<PicUrl>">> \o CData(a.image) \o <<"</PicUrl>", "\n">>
        \o <<"<Url>">> \o CData(a.url) \o <<"</Url>", "\n", "</item>">>

RECURSIVE Join(_, _)
\* [String]::join(sep)
Join(strings, sep) ==
    IF Len(strings) = 0 THEN <<>>
    ELSE IF Len(strings) = 1 THEN strings[1]
    ELSE strings[1] \o sep \o Join(Tail(strings), sep)

DecimalDigits == <<"0", "1", "2", "3", "4", "5", "6", "7", "8", "9">>

RECURSIVE ToDecimal(_)
\* Display of a non-negative integer
ToDecimal(n) ==
    IF n < 10 THEN <<DecimalDigits[n + 1]>>
    ELSE ToDecimal(n \div 10) \o <<DecimalDigits[(n % 10) + 1]>>

\* ReplyRenderer::render for ArticlesReply
ReplyRender(r) ==
    LET articles == [i \in 1..Len(r.articles) |-> ArticleRender(r.articles[i])]
        articles_str == Join(articles, <<"\n">>)
    IN  <<"<xml>", "\n", "<ToUserName>">> \o CData(r.target) \o <<"</ToUserName>", "\n">>
            \o <<"<FromUserName>">> \o CData(r.source) \o <<"</FromUserName>", "\n">>
            \o <<"<CreateTime>">> \o ToDecimal(r.time) \o <<"</CreateTime>", "\n">>
            \o <<"<MsgType>">> \o CData(<<"news">>) \o <<"</MsgType>", "\n">>
            \o <<"<ArticleCount>">> \o ToDecimal(Len(r.articles)) \o <<"</ArticleCount>", "\n">>
            \o <<"<Articles>">> \o articles_str \o <<"</Articles>", "\n", "</xml>">>

\* the capacity test of add_article
MaxArticles == 10

\* the articles of the module's test, and one whose title holds markup
PlainArticle == ArticleNew(<<"test3">>, <<"test4">>)

ImageArticle == ArticleWithImage(<<"test5">>, <<"test6">>, <<"test7">>)

MarkupArticle ==
    ArticleWithDescription(
        <<"a", CDataClose, "</Title>", "</item>", "<item>", "<Title>", CDataOpen, "b">>,
        <<"test9">>, <<"<item>">>)

Catalogue == {PlainArticle, MarkupArticle}

\* the longest slice handed to with_articles
MaxPrefill == 11

Prefills == {Rep(n, ImageArticle) : n \in (MaxArticles - 1)..MaxPrefill}

\* values of current_timestamp()
Timestamps == {7, 1700000000}

\* ArticlesReply::new(source, target)
New ==
    /\ ~reply.made
    /\ Idle
    /\ \E time \in Timestamps :
          /\ reply' = [made |-> TRUE, source |-> <<"test1">>, target |-> <<"test2">>,
                       time |-> time, articles |-> <<>>]
          /\ sent' = Record("new", [source |-> <<"test1">>, target |-> <<"test2">>], TRUE)
    /\ call' = sent'
    /\ UNCHANGED <<key, endian, cfgTest, wtr, pending, locals>>

\* ArticlesReply::with_articles(source, target, articles)
WithArticles ==
    /\ ~reply.made
    /\ Idle
    /\ \E time \in Timestamps, articles \in Prefills :
          /\ reply' = [made |-> TRUE, source |-> <<"test1">>, target |-> <<"test2">>,
                       time |-> time, articles |-> articles]
          /\ sent' = Record("with_articles",
                            [source |-> <<"test1">>, target |-> <<"test2">>,
                             articles |-> articles], TRUE)
    /\ call' = sent'
    /\ UNCHANGED <<key, endian, cfgTest, wtr, pending, locals>>

\* reply.add_article(article)
AddArticle ==
    /\ reply.made
    /\ \E article \in Catalogue :
          IF Len(reply.articles) >= MaxArticles
          THEN /\ call' = Record("add_article", [article |-> article], FALSE)
               /\ reply' = reply
          ELSE /\ call' = Record("add_article", [article |-> article], TRUE)
               /\ reply' = [reply EXCEPT !.articles = Append(@, article)]
    /\ UNCHANGED <<key, endian, cfgTest, wtr, sent, pending, locals>>

\* reply.render()
Render ==
    /\ reply.made
    /\ call' = Record("render", <<>>, ReplyRender(reply))
    /\ UNCHANGED <<key, endian, cfgTest, wtr, sent, pending, locals, reply>>

NextArticles ==
    \/ New
    \/ WithArticles
    \/ AddArticle
    \/ Render

\* no reply constructed yet; the key holder plays no part
InitArticles == Init /\ key = K16A

SpecArticles == InitArticles /\ [][NextArticles]_vars

(***************************************************************************)
(* Properties                                                              *)
(***************************************************************************)
\* the last call decrypted, with id i, exactly what the last encrypt_msg returned
DecryptedSent ==
    /\ call.op = "decrypt_msg"
    /\ sent.op = "encrypt_msg"
    /\ IsOk(sent.ret)
    /\ call.args.ciphertext = sent.ret.val

\* C1: with a 16-byte key aes_128_cbc_encrypt_msg succeeds, and
\* aes_128_cbc_decrypt_msg of its output with the same recipient id returns Ok
\* with exactly the content that was encrypted.
C1_RoundTripMsg ==
    /\ (sent.op = "encrypt_msg" /\ Len(key) = BlockLen) => IsOk(sent.ret)
    /\ (DecryptedSent /\ call.args.id = sent.args.id)
          => call.ret = Ok(sent.args.plaintext)

C1_Witness ==
    /\ DecryptedSent
    /\ call.args.id = sent.args.id
    /\ sent.args.plaintext = <<>>
    /\ sent.args.id = <<>>
    /\ IsOk(call.ret)

\* C2: aes_128_cbc_decrypt_msg of the output of aes_128_cbc_encrypt_msg(C, I)
\* with any recipient id other than I returns Err(InvalidAppId).
C2_IdentityBinding ==
    (DecryptedSent /\ call.args.id # sent.args.id)
        => call.ret = Err("InvalidAppId")

C2_Witness ==
    /\ DecryptedSent
    /\ sent.args.id = IdApp42
    /\ call.args.id = Take(IdApp42, 5)
    /\ call.ret = Err("InvalidAppId")

OneByteChanged(a, b) ==
    /\ Len(a) = Len(b)
    /\ Cardinality({i \in 1..Len(a) : a[i] # b[i]}) = 1

\* the last call decrypted, with the sender's id, the last encrypt_msg output with
\* one byte of the decoded ciphertext changed
DecryptedTampered ==
    /\ call.op = "decrypt_msg"
    /\ sent.op = "encrypt_msg"
    /\ IsOk(sent.ret)
    /\ call.args.id = sent.args.id
    /\ IsOk(Base64Decode(call.args.ciphertext))
    /\ OneByteChanged(Base64Decode(sent.ret.val).val,
                      Base64Decode(call.args.ciphertext).val)

\* C3: changing one byte of a message ciphertext never makes
\* aes_128_cbc_decrypt_msg (same recipient id) return Ok with a text other than
\* the content that was encrypted.  (The claim also names the errors the call
\* returns instead; this is the half of it that does not depend on them.)
C3_TamperDetected ==
    (DecryptedTampered /\ IsOk(call.ret)) => call.ret.val = sent.args.plaintext

\* what symm::decrypt hands to the decode step of the last decrypt_msg call
DecryptedText ==
    LET d == Base64Decode(call.args.ciphertext)
    IN  IF IsOk(d) /\ Len(key) >= BlockLen
        THEN SymmDecrypt(key, Take(key, BlockLen), d.val)
        ELSE Err("none")

\* the frame is shorter than 20 bytes plus its big-endian length field
Truncated(text) ==
    \/ Len(text) < HeaderLen
    \/ text[17] >= 128
    \/ text[17] * 16777216 + text[18] * 65536 + text[19] * 256 + text[20] + HeaderLen
          > Len(text)

\* C4: a decrypted frame shorter than 20 + length makes aes_128_cbc_decrypt_msg
\* return the FrameTruncated error.
C4_FrameTruncatedTyped ==
    (call.op = "decrypt_msg" /\ IsOk(DecryptedText) /\ Truncated(DecryptedText.val))
        => call.ret = Err("FrameTruncated")

\* the content and recipient-id segments of a frame that is not truncated
ContentOf(text) ==
    SubSeq(text, HeaderLen + 1, HeaderLen + text[18] * 65536 + text[19] * 256 + text[20])

IdOf(text) == Drop(text, HeaderLen + text[18] * 65536 + text[19] * 256 + text[20])

\* what symm::decrypt returns in the last decrypt_data call
DecryptedData ==
    LET d == FromHex(call.args.ciphertext)
    IN  IF IsOk(d) THEN SymmDecrypt(key, call.args.iv, d.val) ELSE Err("none")

\* C5: content bytes that are not valid UTF-8 make aes_128_cbc_decrypt_msg (the
\* identity check passed) and aes_128_cbc_decrypt_data return TextDecodeError.
C5_NoSilentEmptyText ==
    /\ (/\ call.op = "decrypt_msg"
        /\ IsOk(DecryptedText)
        /\ ~Truncated(DecryptedText.val)
        /\ IdOf(DecryptedText.val) = call.args.id
        /\ ~IsUtf8(ContentOf(DecryptedText.val)))
          => call.ret = Err("TextDecodeError")
    /\ (call.op = "decrypt_data" /\ IsOk(DecryptedData) /\ ~IsUtf8(DecryptedData.val))
          => call.ret = Err("TextDecodeError")

\* C6: the frame is 16 alphanumeric prefix bytes, the content's byte length as a
\* big-endian u32, the content bytes, then the recipient-id bytes, on either byte
\* order and for every content length.
C6_FrameInvariant ==
    call.op \in {"encode", "encrypt_msg"} =>
        LET n == Len(call.args.plaintext)
        IN  /\ Len(wtr) = PrefixLen + 4 + n + Len(call.args.id)
            /\ Take(wtr, PrefixLen) = call.args.prefix
            /\ \A i \in 1..PrefixLen : wtr[i] \in Alphanumeric
            /\ wtr[17] * 16777216 + wtr[18] * 65536 + wtr[19] * 256 + wtr[20] = n
            /\ SubSeq(wtr, HeaderLen + 1, HeaderLen + n) = call.args.plaintext
            /\ Drop(wtr, HeaderLen + n) = call.args.id

C6_Witness ==
    /\ call.op = "encode"
    /\ endian = "little"
    /\ Len(call.args.plaintext) > 65536
    /\ call.args.id = IdApp42
    /\ Len(wtr) = HeaderLen + Len(call.args.plaintext) + 6

\* C7: the value aes_256_gcm_encrypt returns carries the 16-byte tag with the
\* ciphertext, so that aes_256_gcm_decrypt of the two (same associated data and
\* nonce) returns exactly the plaintext.
C7_AeadRoundTrip ==
    (call.op = "gcm_decrypt" /\ sent.op = "gcm_encrypt" /\ IsOk(sent.ret))
        => /\ Len(call.args.tag) = TagLen
           /\ call.ret = Ok(sent.args.plain_text)

IsLowerHex(c) == c \in (48..57) \cup (97..102)

\* the last call decrypted exactly what the last encrypt_data returned
DecryptedSentData ==
    /\ call.op = "decrypt_data"
    /\ sent.op = "encrypt_data"
    /\ IsOk(sent.ret)
    /\ call.args.ciphertext = sent.ret.val

\* C8: with a 16-byte key and a 16-byte iv aes_128_cbc_encrypt_data succeeds; its
\* output is lowercase hexadecimal, two digits per byte of the padded plaintext,
\* and decodes to a ciphertext whose decryption is the plaintext alone; and
\* aes_128_cbc_decrypt_data of it with the same iv returns Ok with the plaintext.
C8_RoundTripData ==
    /\ (sent.op = "encrypt_data" /\ Len(key) = BlockLen /\ Len(sent.args.iv) = BlockLen)
          => /\ IsOk(sent.ret)
             /\ \A i \in 1..Len(sent.ret.val) : IsLowerHex(sent.ret.val[i])
             /\ Len(sent.ret.val)
                   = 2 * BlockLen * ((Len(sent.args.plaintext) \div BlockLen) + 1)
             /\ SymmDecrypt(key, sent.args.iv, FromHex(sent.ret.val).val)
                   = Ok(sent.args.plaintext)
    /\ (DecryptedSentData /\ call.args.iv = sent.args.iv)
          => call.ret = Ok(sent.args.plaintext)

C8_Witness ==
    /\ DecryptedSentData
    /\ call.args.iv = sent.args.iv
    /\ sent.args.plaintext = TxtBlock
    /\ call.ret = Ok(TxtBlock)

\* the key encoding each signing entry point takes
Accepts(op, m) ==
    /\ m.part = "private"
    /\ \/ op = "sign" /\ m.form = "pem"
       \/ op = "sign_pkcs1" /\ m.form = "der" /\ m.enc = "pkcs1"
       \/ op = "sign_pkcs8" /\ m.form = "der" /\ m.enc = "pkcs8"

Parseable(m) == m.form = "pem" /\ m.part = "public" /\ m.enc = "spki"

\* the last call verified what the last signing call returned
VerifiedSent ==
    /\ call.op = "verify"
    /\ sent.op \in SignOps
    /\ IsOk(sent.ret)
    /\ call.args.sign = sent.ret.val

\* C9: each signing entry point succeeds on a private key in its encoding;
\* rsa_sha256_verify of its output under a parseable public key returns Ok(TRUE)
\* for the same key pair and content and Ok(FALSE) otherwise; and verify returns
\* an error only for a signature that is not base64 or a key it cannot parse.
C9_SignatureRoundTrip ==
    /\ (sent.op \in SignOps /\ Accepts(sent.op, sent.args.private_key)) => IsOk(sent.ret)
    /\ (VerifiedSent /\ Parseable(call.args.public_key))
          => call.ret = Ok(/\ call.args.public_key.kp = sent.args.private_key.kp
                           /\ call.args.content = sent.args.content)
    /\ (call.op = "verify" /\ ~IsOk(call.ret))
          => /\ call.ret.kind = "Err"
             /\ \/ ~IsOk(Base64Decode(call.args.sign))
                \/ ~Parseable(call.args.public_key)

C9_Witness ==
    /\ VerifiedSent
    /\ sent.op = "sign_pkcs8"
    /\ call.ret = Ok(TRUE)

\* C10: with a key that is not 16 bytes long aes_128_cbc_encrypt_msg and
\* aes_128_cbc_decrypt_msg (of well-formed base64) return the cipher error, and
\* no call of any operation aborts.
C10_WrongKeyTyped ==
    /\ (/\ call.op \in {"encrypt_msg", "decrypt_msg"}
        /\ Len(key) # BlockLen
        /\ (call.op = "decrypt_msg" => IsOk(Base64Decode(call.args.ciphertext))))
          => call.ret = Err("ErrorStack")
    /\ call.op # "none" => call.ret.kind # "Abort"

\* what a call returns when it runs alone on the key holder
Alone(o, a) ==
    CASE o = "encrypt_msg" -> aes_128_cbc_encrypt_msg(key, endian, a.prefix, a.plaintext, a.id)
      [] o = "decrypt_msg" -> aes_128_cbc_decrypt_msg(key, endian, a.ciphertext, a.id)
      [] o = "encrypt_data" -> aes_128_cbc_encrypt_data(key, a.plaintext, a.iv)
      [] o = "decrypt_data" -> aes_128_cbc_decrypt_data(key, a.ciphertext, a.iv)
      [] o = "gcm_encrypt" -> aes_256_gcm_encrypt(key, a.ad, a.nonce, a.plain_text)
      [] o = "gcm_decrypt" -> aes_256_gcm_decrypt(key, a.ad, a.nonce, a.ciphertext, a.tag)

ResultsAsAlone ==
    \A c \in Callers :
        pending[c].pc = "done" => pending[c].ret = Alone(pending[c].op, pending[c].args)

\* a statement of one caller's call leaves the key holder and every other
\* caller's call and local bindings as they were
StepIsPrivate ==
    /\ key' = key
    /\ \A c, d \in Callers :
          (pending'[c] # pending[c] /\ d # c)
              => (pending'[d] = pending[d] /\ locals'[d] = locals[d])

\* C11: every statement of every engine operation, in calls that succeed and in
\* calls that fail, leaves the held key and the other callers' state unchanged,
\* and however the calls of the callers sharing the key holder interleave, each
\* call returns what it returns when run alone on the same inputs and prefix.
C11_KeyHolderShared == []ResultsAsAlone /\ [][StepIsPrivate]_vars

\* caller a's encrypt_msg has returned Ok while caller b's decrypt_msg, entered
\* meanwhile, holds its decrypted frame, and b's earlier buffers did not disturb a
C11_Witness ==
    /\ pending["a"].pc = "done"
    /\ pending["a"].op = "encrypt_msg"
    /\ IsOk(pending["a"].ret)
    /\ pending["b"].pc = "line63"
    /\ locals["a"] # locals["b"]
    /\ Len(key) = BlockLen

\* position i of a rendered reply lies inside a CDATA section: the nearest of the
\* two CDATA delimiters before it is the opening one
InCData(xml, i) ==
    LET marks == {j \in 1..(i - 1) : xml[j] \in {CDataOpen, CDataClose}}
    IN  \E j \in marks : xml[j] = CDataOpen /\ \A k \in marks : k <= j

\* the <item> elements of a rendered reply
ItemEntries(xml) ==
    Cardinality({i \in 1..Len(xml) : xml[i] = "<item>" /\ ~InCData(xml, i)})

RECURSIVE FromDecimal(_)
FromDecimal(digits) ==
    IF Len(digits) = 0 THEN 0
    ELSE 10 * FromDecimal(Take(digits, Len(digits) - 1))
            + (CHOOSE d \in 0..9 : DecimalDigits[d + 1] = digits[Len(digits)])

\* the number inside the ArticleCount element of a rendered reply
ArticleCount(xml) ==
    LET open == CHOOSE i \in 1..Len(xml) : xml[i] = "<ArticleCount>" /\ ~InCData(xml, i)
        close == CHOOSE j \in open..Len(xml) :
                     /\ xml[j] = "</ArticleCount>"
                     /\ \A k \in open..(j - 1) : xml[k] # "</ArticleCount>"
    IN  FromDecimal(SubSeq(xml, open + 1, close - 1))

\* add_article on a full reply returns false and changes nothing; otherwise it
\* returns true and the article is the new last element
AddArticleContract ==
    call'.op = "add_article"
        => IF Len(reply.articles) >= MaxArticles
           THEN call'.ret = FALSE /\ reply' = reply
           ELSE call'.ret = TRUE /\ reply'.articles = Append(reply.articles, call'.args.article)

\* no call changes or reorders the articles a reply already holds
ArticlesKeepOrder ==
    reply.made
        => /\ Len(reply'.articles) >= Len(reply.articles)
           /\ SubSeq(reply'.articles, 1, Len(reply.articles)) = reply.articles

NewStaysWithinCapacity == sent.op = "new" => Len(reply.articles) <= MaxArticles

CountMatchesItems == call.op = "render" => ArticleCount(call.ret) = ItemEntries(call.ret)

\* add_article and the list alone: the contract of add_article, the order of
\* earlier articles, and at most MaxArticles articles in a reply made by new
ArticlesCapacity ==
    []NewStaysWithinCapacity /\ [][AddArticleContract /\ ArticlesKeepOrder]_vars

\* C12: add_article on a reply holding 10 or more articles returns false and
\* leaves the list unchanged, otherwise it appends the article as the last element
\* and returns true; a reply made by ArticlesReply::new never holds more than 10
\* articles, earlier articles keep their order, and in every rendered reply the
\* number in ArticleCount equals the number of <item> elements.
C12_ArticlesCapacity ==
    /\ []NewStaysWithinCapacity
    /\ []CountMatchesItems
    /\ [][AddArticleContract /\ ArticlesKeepOrder]_vars

====
